---------------------------- MODULE Spec2Model ----------------------------
(***************************************************************************)
(* A model of jz, a personal income ledger with a session stopwatch.       *)
(*   src/src/main.rs  App: the stopwatch buttons, add_record's validation, *)
(*                    delete/toggle/month selection, refresh_data          *)
(*   src/src/db.rs    Database: the records table                          *)
(***************************************************************************)
EXTENDS Integers, Sequences, FiniteSets, TLC

(* Bounds of the model. *)
MaxClock == 2
MaxSpecClock == 1
MaxIds == 1
MaxFormIds == 1
MaxEntryIds == 2
PoolSize == 3
MaxRuns == 2
MaxCalIds == 2

VARIABLES
    now,                  \* the monotonic clock read by Instant::now()
    timer_running,        \* App.timer_running
    timer_start_instant,  \* App.timer_start_instant: <<>> is None, <<t>> is Some(t)
    timer_accumulated,    \* App.timer_accumulated
    timer_ended,          \* App.timer_ended
    call,                 \* history: the last stopwatch button pressed, and the state it was pressed in
    phase,                \* history: the state of the stopwatch automaton of spec 4.4 after the same calls
    ran,                  \* history: clock time that passed while phase was Running
    db_columns,           \* the columns of table records, in the order they were added (db.rs 40-56)
    db_rows,              \* the rows of table records
    db_seq,               \* AUTOINCREMENT's sqlite_sequence: the largest id ever assigned
    records,              \* App.records: the snapshot of the last refresh
    total_balance,        \* App.total_balance
    day_balance,          \* App.day_balance
    month_balance,        \* App.month_balance
    boss_balances,        \* App.boss_balances
    boss_list,            \* App.boss_list
    game_list,            \* App.game_list
    selected_year,        \* App.selected_year
    selected_month,       \* App.selected_month
    input_date,           \* App.input_date
    input_boss,           \* App.input_boss
    input_income,         \* App.input_income
    input_duration,       \* App.input_duration
    input_game,           \* App.input_game
    input_settled,        \* App.input_settled
    input_boss_error,     \* App.input_boss_error
    input_income_error,   \* App.input_income_error
    message,              \* App.message
    message_is_error,     \* App.message_is_error
    today,                \* the calendar day read by Local::now()
    issued,               \* history: every id an INSERT of this file was given
    store_call,           \* history: the last delete or update_settled called by id, and whether the id was stored
    init_log,             \* history: the file the last Database::init ran on, and the errors it swallowed
    shown,                \* history: the last amount format_money was given, and the text it wrote
    panicked              \* whether the program has ended in a panic

timerVars == <<timer_running, timer_start_instant, timer_accumulated, timer_ended>>
histVars == <<call, phase, ran>>
storeVars == <<db_columns, db_rows, db_seq>>
cacheVars == <<records, total_balance, day_balance, month_balance, boss_balances,
               boss_list, game_list>>
monthVars == <<selected_year, selected_month>>
inputVars == <<input_boss, input_income, input_duration, input_game, input_settled>>
flagVars == <<input_boss_error, input_income_error>>
msgVars == <<message, message_is_error>>
ledgerHist == <<issued, store_call, init_log, shown, panicked>>
ledgerVars == <<storeVars, cacheVars, monthVars, input_date, inputVars, flagVars,
                msgVars, today, ledgerHist>>
vars == <<now, timerVars, histVars, ledgerVars>>

----------------------------------------------------------------------------
(* The stopwatch: main.rs 470-603. *)

\* main.rs 470-478: the elapsed time shown in the frame
elapsed ==
    IF timer_running
    THEN IF timer_start_instant # <<>>
         THEN timer_accumulated + (now - timer_start_instant[1])
         ELSE timer_accumulated
    ELSE timer_accumulated

\* main.rs 487-490: the states the buttons are enabled by
is_initial == ~timer_running /\ timer_accumulated = 0 /\ ~timer_ended
is_running == timer_running
is_paused == ~timer_running /\ timer_accumulated # 0 /\ ~timer_ended
is_ended == timer_ended

TimerState ==
    CASE is_ended -> "Ended"
      [] is_running -> "Running"
      [] is_paused -> "Paused"
      [] is_initial -> "Initial"
      [] OTHER -> "None"

\* start.elapsed() of main.rs 542 and 573: the clock is monotonic, not strictly increasing
StartElapsed == now - timer_start_instant[1]

\* spec 4.4: the automaton the calls are legal against
SpecStep(p, op) ==
    CASE p = "Initial" /\ op = "start" -> "Running"
      [] p = "Running" /\ op = "pause" -> "Paused"
      [] p = "Paused" /\ op = "resume" -> "Running"
      [] p = "Running" /\ op = "stop" -> "Ended"
      [] p = "Paused" /\ op = "stop" -> "Ended"
      [] p = "Ended" /\ op = "reset" -> "Initial"
      [] OTHER -> p

Called(op) ==
    /\ call' = [op |-> op, from |-> TimerState, acc |-> timer_accumulated]
    /\ phase' = SpecStep(phase, op)
    /\ ran' = IF phase = "Ended" /\ op = "reset" THEN 0 ELSE ran
    /\ UNCHANGED <<now, ledgerVars>>

\* main.rs 517-531
StartBtn ==
    /\ Called("start")
    /\ IF is_initial
       THEN /\ timer_running' = TRUE
            /\ timer_start_instant' = <<now>>
            /\ timer_ended' = FALSE
            /\ UNCHANGED timer_accumulated
       ELSE UNCHANGED timerVars

\* main.rs 536-546
PauseBtn ==
    /\ Called("pause")
    /\ IF is_running
       THEN /\ timer_accumulated' =
                 IF timer_start_instant # <<>>
                 THEN timer_accumulated + StartElapsed
                 ELSE timer_accumulated
            /\ timer_running' = FALSE
            /\ timer_start_instant' = <<>>
            /\ UNCHANGED timer_ended
       ELSE UNCHANGED timerVars

\* a resume that starts the count again from zero
ResumeBtnRestarts ==
    /\ Called("resume")
    /\ IF ~is_running /\ is_paused
       THEN /\ timer_running' = TRUE
            /\ timer_start_instant' = <<now>>
            /\ timer_accumulated' = 0
            /\ UNCHANGED timer_ended
       ELSE UNCHANGED timerVars

\* main.rs 547-554
ResumeBtn ==
    /\ Called("resume")
    /\ IF ~is_running /\ is_paused
       THEN /\ timer_running' = TRUE
            /\ timer_start_instant' = <<now>>
            /\ UNCHANGED <<timer_accumulated, timer_ended>>
       ELSE UNCHANGED timerVars

\* a stop that writes the measured hours into the form's duration field
StopBtnFillsDuration ==
    /\ call' = [op |-> "stop", from |-> TimerState, acc |-> timer_accumulated]
    /\ phase' = SpecStep(phase, "stop")
    /\ UNCHANGED <<now, ran>>
    /\ IF is_running \/ is_paused
       THEN /\ timer_accumulated' =
                 IF timer_start_instant # <<>>
                 THEN timer_accumulated + StartElapsed
                 ELSE timer_accumulated
            /\ timer_running' = FALSE
            /\ timer_start_instant' = <<>>
            /\ timer_ended' = TRUE
            /\ input_duration' = <<"1">>
            /\ UNCHANGED <<storeVars, cacheVars, monthVars, input_date, input_boss,
                           input_income, input_game, input_settled, flagVars,
                           msgVars, today, ledgerHist>>
       ELSE UNCHANGED <<timerVars, ledgerVars>>

\* a stop button that keeps the start instant
StopBtnKeepsStart ==
    /\ Called("stop")
    /\ IF is_running \/ is_paused
       THEN /\ timer_accumulated' =
                 IF timer_start_instant # <<>>
                 THEN timer_accumulated + StartElapsed
                 ELSE timer_accumulated
            /\ timer_running' = FALSE
            /\ timer_ended' = TRUE
            /\ UNCHANGED timer_start_instant
       ELSE UNCHANGED timerVars

\* main.rs 565-578
StopBtn ==
    /\ Called("stop")
    /\ IF is_running \/ is_paused
       THEN /\ timer_accumulated' =
                 IF timer_start_instant # <<>>
                 THEN timer_accumulated + StartElapsed
                 ELSE timer_accumulated
            /\ timer_running' = FALSE
            /\ timer_start_instant' = <<>>
            /\ timer_ended' = TRUE
       ELSE UNCHANGED timerVars

\* a reset button that is live in every state
ResetBtnAlways ==
    /\ Called("reset")
    /\ timer_accumulated' = 0
    /\ timer_ended' = FALSE
    /\ UNCHANGED <<timer_running, timer_start_instant>>

\* a reset that leaves the accumulated time in place
ResetBtnKeeps ==
    /\ Called("reset")
    /\ IF is_ended
       THEN /\ timer_ended' = FALSE
            /\ UNCHANGED <<timer_running, timer_start_instant, timer_accumulated>>
       ELSE UNCHANGED timerVars

\* main.rs 590-597
ResetBtn ==
    /\ Called("reset")
    /\ IF is_ended
       THEN /\ timer_accumulated' = 0
            /\ timer_ended' = FALSE
            /\ UNCHANGED <<timer_running, timer_start_instant>>
       ELSE UNCHANGED timerVars

\* time passes between two frames; maxClock bounds the clock of the model
Tick(maxClock) ==
    /\ now < maxClock
    /\ now' = now + 1
    /\ ran' = IF phase = "Running" THEN ran + 1 ELSE ran
    /\ UNCHANGED <<timerVars, call, phase, ledgerVars>>

\* main.rs 232-235
TimerInit ==
    /\ now = 0
    /\ timer_running = FALSE
    /\ timer_start_instant = <<>>
    /\ timer_accumulated = 0
    /\ timer_ended = FALSE
    /\ call = [op |-> "none", from |-> "Initial", acc |-> 0]
    /\ phase = "Initial"
    /\ ran = 0

----------------------------------------------------------------------------
(* Text and numbers.  A text is a sequence of one-character strings.  A     *)
(* parsed f64 is [k, neg, cents, tiny]: k is "num", "inf", "nan" or "err"   *)
(* (the parse failed), cents its magnitude in hundredths, tiny whether      *)
(* non-zero digits follow the second decimal.  The texts of the model hold  *)
(* no exponent and at most two decimals, so cents is the decimal the text   *)
(* denotes; F64OfCents below gives the double it parses to.                 *)

Digits == {"0", "1", "2", "3", "4", "5", "6", "7", "8", "9"}

DigitVal(c) ==
    CASE c = "0" -> 0 [] c = "1" -> 1 [] c = "2" -> 2 [] c = "3" -> 3
      [] c = "4" -> 4 [] c = "5" -> 5 [] c = "6" -> 6 [] c = "7" -> 7
      [] c = "8" -> 8 [] c = "9" -> 9

\* str::trim of main.rs 287, 288, 320, 333
RECURSIVE TrimStart(_)
TrimStart(t) ==
    IF t # <<>> /\ Head(t) = " " THEN TrimStart(Tail(t)) ELSE t

RECURSIVE TrimEnd(_)
TrimEnd(t) ==
    IF t # <<>> /\ t[Len(t)] = " " THEN TrimEnd(SubSeq(t, 1, Len(t) - 1)) ELSE t

\* a trim of the leading spaces only
TrimLeading(t) == TrimStart(t)

Trim(t) == TrimEnd(TrimStart(t))

ToLower(c) ==
    CASE c = "I" -> "i" [] c = "N" -> "n" [] c = "F" -> "f" [] c = "A" -> "a"
      [] c = "T" -> "t" [] c = "Y" -> "y" [] OTHER -> c

LowerText(t) == [i \in 1..Len(t) |-> ToLower(t[i])]

RECURSIVE DigitsVal(_)
DigitsVal(t) ==
    IF t = <<>> THEN 0
    ELSE 10 * DigitsVal(SubSeq(t, 1, Len(t) - 1)) + DigitVal(t[Len(t)])

ParseError == [k |-> "err", neg |-> FALSE, cents |-> 0, tiny |-> FALSE]

\* a decimal literal without sign: digits, at most one point, a digit on one side of it
ParseDecimal(body, neg) ==
    LET dots == {i \in 1..Len(body) : body[i] = "."}
        p == IF dots = {} THEN Len(body) + 1 ELSE CHOOSE i \in dots : TRUE
        whole == SubSeq(body, 1, p - 1)
        frac == SubSeq(body, p + 1, Len(body))
        wellFormed ==
            /\ Cardinality(dots) <= 1
            /\ \A i \in 1..Len(body) : body[i] \in Digits \/ body[i] = "."
            /\ Len(whole) + Len(frac) >= 1
        frac2 == [i \in 1..2 |-> IF i <= Len(frac) THEN frac[i] ELSE "0"]
    IN  IF ~wellFormed THEN ParseError
        ELSE [k |-> "num", neg |-> neg,
              cents |-> 100 * DigitsVal(whole) + DigitsVal(frac2),
              tiny |-> \E i \in 3..Len(frac) : frac[i] # "0"]

\* str::parse::<f64> of main.rs 288, 310, 323
ParseF64(t) ==
    LET signed == t # <<>> /\ Head(t) \in {"+", "-"}
        neg == signed /\ Head(t) = "-"
        body == IF signed THEN Tail(t) ELSE t
        low == LowerText(body)
    IN  IF low \in {<<"i", "n", "f">>, <<"i", "n", "f", "i", "n", "i", "t", "y">>}
        THEN [k |-> "inf", neg |-> neg, cents |-> 0, tiny |-> FALSE]
        ELSE IF low = <<"n", "a", "n">>
        THEN [k |-> "nan", neg |-> neg, cents |-> 0, tiny |-> FALSE]
        ELSE ParseDecimal(body, neg)

IsOk(v) == v.k # "err"
\* f64::is_finite
IsFinite(v) == v.k = "num"
\* v <= 0.0
LeZero(v) ==
    \/ v.k = "num" /\ (v.neg \/ (v.cents = 0 /\ ~v.tiny))
    \/ v.k = "inf" /\ v.neg
\* v > 0.0
GtZero(v) ==
    \/ v.k = "num" /\ ~v.neg /\ (v.cents > 0 \/ v.tiny)
    \/ v.k = "inf" /\ ~v.neg

\* main.rs 280
MAX_INCOME == 100000

\* a ceiling that already rejects the ceiling itself
GeMaxIncome(v) ==
    \/ v.k = "num" /\ ~v.neg /\ v.cents >= 100 * MAX_INCOME
    \/ v.k = "inf" /\ ~v.neg

\* income > MAX_INCOME of main.rs 313
GtMaxIncome(v) ==
    \/ v.k = "num" /\ ~v.neg
         /\ (v.cents > 100 * MAX_INCOME \/ (v.cents = 100 * MAX_INCOME /\ v.tiny))
    \/ v.k = "inf" /\ ~v.neg

\* a rounding that cuts the second decimal off
RoundOneDecimalDown(v) == (v.cents \div 10) * 10

\* (v * 10.0).round() / 10.0 of main.rs 324, in hundredths: half rounds away from zero
RoundOneDecimal(v) == ((v.cents + 5) \div 10) * 10

\* the characters of the model's texts, in code-point order
CharCode(c) ==
    CASE c = " " -> 32 [] c = "+" -> 43 [] c = "-" -> 45 [] c = "." -> 46
      [] c \in Digits -> 48 + DigitVal(c)
      [] c = "A" -> 65 [] c = "B" -> 66 [] c = "F" -> 70 [] c = "G" -> 71
      [] c = "H" -> 72 [] c = "I" -> 73 [] c = "N" -> 78
      [] c = "a" -> 97 [] c = "b" -> 98 [] c = "c" -> 99 [] c = "f" -> 102
      [] c = "i" -> 105 [] c = "n" -> 110 [] c = "t" -> 116 [] c = "x" -> 120
      [] c = "y" -> 121 [] OTHER -> 127

\* the byte order of SQLite's ORDER BY on TEXT
RECURSIVE TextLess(_, _)
TextLess(a, b) ==
    IF b = <<>> THEN FALSE
    ELSE IF a = <<>> THEN TRUE
    ELSE IF Head(a) # Head(b) THEN CharCode(Head(a)) < CharCode(Head(b))
    ELSE TextLess(Tail(a), Tail(b))

RECURSIVE SortTexts(_)
SortTexts(S) ==
    IF S = {} THEN <<>>
    ELSE LET m == CHOOSE x \in S : \A y \in S : x = y \/ TextLess(x, y)
         IN  <<m>> \o SortTexts(S \ {m})

----------------------------------------------------------------------------
(* The f64 of the amounts.  A finite non-negative double from 2^-7 up is    *)
(* held exactly: the integer value * 2^ScaleBits, written in base           *)
(* 2^LimbBits as <<n1, n2, n3, n4>>, least significant first.  Every f64    *)
(* operation is the exact result rounded to MantissaBits significant bits,  *)
(* nearest, ties to even (IEEE 754), as the hardware does it.               *)

MantissaBits == 53
LimbBits == 24
LimbBase == 2^LimbBits
ScaleBits == 60

\* 0.0
Zero64 == <<0, 0, 0, 0>>

\* a + b before rounding
AddExact(a, b) ==
    LET s1 == a[1] + b[1]
        s2 == a[2] + b[2] + (s1 \div LimbBase)
        s3 == a[3] + b[3] + (s2 \div LimbBase)
        s4 == a[4] + b[4] + (s3 \div LimbBase)
    IN  <<s1 % LimbBase, s2 % LimbBase, s3 % LimbBase, s4>>

\* a - b before rounding, for a >= b
SubExact(a, b) ==
    LET d1 == a[1] - b[1]
        d2 == a[2] - b[2] + (d1 \div LimbBase)
        d3 == a[3] - b[3] + (d2 \div LimbBase)
        d4 == a[4] - b[4] + (d3 \div LimbBase)
    IN  <<d1 % LimbBase, d2 % LimbBase, d3 % LimbBase, d4>>

\* a divided by a small d: quotient and remainder
DivSmall(a, d) ==
    LET x4 == a[4]
        x3 == (x4 % d) * LimbBase + a[3]
        x2 == (x3 % d) * LimbBase + a[2]
        x1 == (x2 % d) * LimbBase + a[1]
    IN  [q |-> <<x1 \div d, x2 \div d, x3 \div d, x4 \div d>>, r |-> x1 % d]

BitLenLimb(x) == CHOOSE k \in 0..31 : x < 2^k /\ (k = 0 \/ 2^(k - 1) <= x)

\* the number of significant bits of a
BitLen(a) ==
    IF a[4] # 0 THEN 3 * LimbBits + BitLenLimb(a[4])
    ELSE IF a[3] # 0 THEN 2 * LimbBits + BitLenLimb(a[3])
    ELSE IF a[2] # 0 THEN LimbBits + BitLenLimb(a[2])
    ELSE BitLenLimb(a[1])

Bit(a, i) == (a[(i \div LimbBits) + 1] \div 2^(i % LimbBits)) % 2

\* a with the bits below position s cleared
ClearBelow(a, s) ==
    [j \in 1..4 |->
        LET lo == LimbBits * (j - 1)
        IN  IF s >= lo + LimbBits THEN 0
            ELSE IF s <= lo THEN a[j]
            ELSE a[j] - (a[j] % 2^(s - lo))]

\* 2^s
OneAt(s) == [j \in 1..4 |-> IF s \div LimbBits = j - 1 THEN 2^(s % LimbBits) ELSE 0]

\* the double nearest to a (+ a fraction below the last bit when sticky), ties to even
RoundToF64(a, sticky) ==
    LET s == BitLen(a) - MantissaBits
    IN  IF s <= 0 THEN a
        ELSE LET guard == Bit(a, s - 1) = 1
                 rest == sticky \/ ClearBelow(a, s - 1) # a
                 odd == Bit(a, s) = 1
                 t == ClearBelow(a, s)
             IN  IF guard /\ (rest \/ odd) THEN AddExact(t, OneAt(s)) ELSE t

\* str::parse::<f64> of a decimal of c hundredths: the double nearest to c / 100
F64OfCents(c) ==
    LET qr == DivSmall(<<0, 0, (c % 2^12) * 2^12, c \div 2^12>>, 100)
    IN  RoundToF64(qr.q, qr.r # 0)

\* a + b of f64
F64Add(a, b) == RoundToF64(AddExact(a, b), FALSE)

\* a - b of f64, for a >= b
F64Sub(a, b) == RoundToF64(SubExact(a, b), FALSE)

\* the double of a whole number n < 2^31, which it holds exactly
F64OfInt(n) == <<0, 0, (n % 2^12) * 2^12, n \div 2^12>>

\* a times a small m before rounding
MulSmall(a, m) ==
    LET p1 == a[1] * m
        p2 == a[2] * m + (p1 \div LimbBase)
        p3 == a[3] * m + (p2 \div LimbBase)
        p4 == a[4] * m + (p3 \div LimbBase)
    IN  <<p1 % LimbBase, p2 % LimbBase, p3 % LimbBase, p4>>

\* the double nearest to units + cents / 100
F64OfDecimal(units, cents) ==
    LET qr == DivSmall(AddExact(MulSmall(F64OfInt(units), 100), F64OfInt(cents)), 100)
    IN  RoundToF64(qr.q, qr.r # 0)

\* a >= b of f64
F64Ge(a, b) ==
    \/ a[4] > b[4]
    \/ a[4] = b[4] /\ a[3] > b[3]
    \/ a[4] = b[4] /\ a[3] = b[3] /\ a[2] > b[2]
    \/ a[4] = b[4] /\ a[3] = b[3] /\ a[2] = b[2] /\ a[1] >= b[1]

\* a / 100^k before rounding: the quotient, and whether a remainder was left
RECURSIVE DivHundreds(_, _)
DivHundreds(a, k) ==
    IF k = 0 THEN [q |-> a, inexact |-> FALSE]
    ELSE LET qr == DivSmall(a, 100)
             rest == DivHundreds(qr.q, k - 1)
         IN  [q |-> rest.q, inexact |-> rest.inexact \/ qr.r # 0]

\* a / 10_000.0 (k = 2) and a / 100_000_000.0 (k = 4) of f64
F64DivHundreds(a, k) ==
    LET d == DivHundreds(a, k) IN RoundToF64(d.q, d.inexact)

\* the whole number of hundredths nearest to a, ties to even: the digits
\* {:.2} of format! writes
Hundredths(a) ==
    LET p == MulSmall(a, 100)
        whole == p[4] * 2^12 + (p[3] \div 2^12)
        frac == <<p[1], p[2], p[3] % 2^12>>
        half == <<0, 0, 2^11>>
        above == \/ frac[3] > half[3]
                 \/ frac[3] = half[3] /\ (frac[2] > 0 \/ frac[1] > 0)
    IN  IF above \/ (frac = half /\ whole % 2 = 1) THEN whole + 1 ELSE whole

----------------------------------------------------------------------------
(* The records table (db.rs) and the snapshot's balances (main.rs 239-271). *)
(* A date is <<year, month, day>>: the fixed-width fields of the ISO text   *)
(* chrono writes with %Y-%m-%d, whose text order is the order of the three  *)
(* numbers.  An Option is <<>> (None) or <<v>> (Some).                      *)

DateLess(a, b) ==
    \/ a[1] < b[1]
    \/ a[1] = b[1] /\ a[2] < b[2]
    \/ a[1] = b[1] /\ a[2] = b[2] /\ a[3] < b[3]

DigitChar(d) ==
    CASE d = 0 -> "0" [] d = 1 -> "1" [] d = 2 -> "2" [] d = 3 -> "3"
      [] d = 4 -> "4" [] d = 5 -> "5" [] d = 6 -> "6" [] d = 7 -> "7"
      [] d = 8 -> "8" [] d = 9 -> "9"

\* {} of format! for an integer n >= 0: its decimal numeral
RECURSIVE Decimal(_)
Decimal(n) ==
    IF n < 10 THEN <<DigitChar(n)>> ELSE Append(Decimal(n \div 10), DigitChar(n % 10))

\* {:02} of format!, %Y, %m and %d of chrono: zeros in front up to the width
RECURSIVE ZeroPad(_, _)
ZeroPad(t, width) == IF Len(t) >= width THEN t ELSE ZeroPad(<<"0">> \o t, width)

\* date.format("%Y-%m-%d") of main.rs 201, 265, 339 and 606
FormatDate(date) ==
    ZeroPad(Decimal(date[1]), 4) \o <<"-">> \o ZeroPad(Decimal(date[2]), 2)
        \o <<"-">> \o ZeroPad(Decimal(date[3]), 2)

\* format!("{}-{:02}", year, month) of main.rs 267, 741 and 1112
FormatYearMonth(ym) == Decimal(ym[1]) \o <<"-">> \o ZeroPad(Decimal(ym[2]), 2)

\* str::starts_with
StartsWith(t, prefix) ==
    Len(prefix) <= Len(t) /\ SubSeq(t, 1, Len(prefix)) = prefix

\* the characters of main.rs 388, 391 and 393 that are not ASCII, by name:
\* the currency marker, the ten-thousand unit and the hundred-million unit
Yuan == "yuan"
Wan == "wan"
Yi == "yi"

\* {:.2} of format! for a double a >= 0
TwoDecimals(a) ==
    Decimal(Hundredths(a) \div 100) \o <<".">> \o ZeroPad(Decimal(Hundredths(a) % 100), 2)

\* a format_money whose thresholds are exclusive
format_money_above(amount) ==
    LET sign == IF amount.neg /\ amount.mag # Zero64 THEN <<"-">> ELSE <<>>
    IN  IF amount.mag # F64OfInt(100000000) /\ F64Ge(amount.mag, F64OfInt(100000000))
        THEN sign \o <<Yuan>> \o TwoDecimals(F64DivHundreds(amount.mag, 4)) \o <<Yi>>
        ELSE IF amount.mag # F64OfInt(100000) /\ F64Ge(amount.mag, F64OfInt(100000))
        THEN sign \o <<Yuan>> \o TwoDecimals(F64DivHundreds(amount.mag, 2)) \o <<Wan>>
        ELSE sign \o <<Yuan>> \o TwoDecimals(amount.mag)

\* main.rs 381-395; an amount is [neg, mag]: its sign bit and its magnitude
format_money(amount) ==
    LET sign == IF amount.neg /\ amount.mag # Zero64 THEN <<"-">> ELSE <<>>
    IN  IF F64Ge(amount.mag, F64OfInt(100000000))
        THEN sign \o <<Yuan>> \o TwoDecimals(F64DivHundreds(amount.mag, 4)) \o <<Yi>>
        ELSE IF F64Ge(amount.mag, F64OfInt(100000))
        THEN sign \o <<Yuan>> \o TwoDecimals(F64DivHundreds(amount.mag, 2)) \o <<Wan>>
        ELSE sign \o <<Yuan>> \o TwoDecimals(amount.mag)

\* r.date.starts_with(year_month) of main.rs 256 and 1115, on the texts
StartsWithMonth(date, ym) == StartsWith(FormatDate(date), FormatYearMonth(ym))

\* an ORDER BY id DESC that leaves the date out
RowBeforeById(r, q) == r.id > q.id

\* ORDER BY date DESC, id DESC of db.rs 84
RowBefore(r, q) ==
    \/ DateLess(q.date, r.date)
    \/ r.date = q.date /\ r.id > q.id

\* db.rs 82-98
RECURSIVE get_all_records(_)
get_all_records(rows) ==
    IF rows = {} THEN <<>>
    ELSE LET first == CHOOSE r \in rows : \A q \in rows : r = q \/ RowBefore(r, q)
         IN  <<first>> \o get_all_records(rows \ {first})

\* SUM(income) over a set of rows: sum() adds the rows as the scan of the table
\* meets them, by ascending id
RECURSIVE SumRows(_)
SumRows(rows) ==
    IF rows = {} THEN Zero64
    ELSE LET last == CHOOSE r \in rows : \A q \in rows : q.id <= r.id
         IN  F64Add(SumRows(rows \ {last}), last.income)

\* db.rs 112-120
get_total_balance(rows) == SumRows(rows)

\* db.rs 101-109
get_boss_balance(rows, boss) == SumRows({r \in rows : r.boss = boss})

\* db.rs 123-133
get_all_bosses(rows) == SortTexts({r.boss : r \in rows})

\* db.rs 136-146
get_all_games(rows) ==
    SortTexts({r.game[1] : r \in {x \in rows : x.game # <<>> /\ x.game[1] # <<>>}})

\* Iterator::sum of main.rs 250 and 258, += of main.rs 242: the incomes of a
\* list of records added front to back, starting from 0.0
RECURSIVE SumIncome(_)
SumIncome(rs) ==
    IF rs = <<>> THEN Zero64
    ELSE F64Add(SumIncome(SubSeq(rs, 1, Len(rs) - 1)), rs[Len(rs)].income)

\* main.rs 239-245
calc_boss_balances(rs) ==
    [b \in {rs[i].boss : i \in 1..Len(rs)} |->
        SumIncome(SelectSeq(rs, LAMBDA r : r.boss = b))]

\* main.rs 247-252
calc_day_balance(rs, date) == SumIncome(SelectSeq(rs, LAMBDA r : r.date = date))

\* a month balance that takes every record of the year
calc_month_balance_year(rs, ym) ==
    SumIncome(SelectSeq(rs, LAMBDA r : r.date[1] = ym[1]))

\* main.rs 254-259
calc_month_balance(rs, ym) ==
    SumIncome(SelectSeq(rs, LAMBDA r : StartsWithMonth(r.date, ym)))

\* main.rs 261-271, reading the rows given
refresh_data(rows) ==
    /\ records' = get_all_records(rows)
    /\ total_balance' = get_total_balance(rows)
    /\ day_balance' = calc_day_balance(get_all_records(rows), today)
    /\ month_balance' =
         calc_month_balance(get_all_records(rows), <<selected_year, selected_month>>)
    /\ boss_balances' = calc_boss_balances(get_all_records(rows))
    /\ boss_list' = get_all_bosses(rows)
    /\ game_list' = get_all_games(rows)

\* the reads of refresh_data, by name
Reads == {"records", "total", "bosses", "games"}

\* main.rs 261-271 when the statements of the reads in fail fail: Err of
\* get_all_records is unwrap_or_default (main.rs 262), Err of the SUM is
\* unwrap_or(0.0) (db.rs 119), and Err of prepare in get_all_bosses and
\* get_all_games is unwrap (db.rs 126, 139), a panic that ends the program
\* with what was assigned before it
refresh_data_reading(rows, fail) ==
    LET rs == IF "records" \in fail THEN <<>> ELSE get_all_records(rows)
    IN  /\ records' = rs
        /\ total_balance' = IF "total" \in fail THEN Zero64 ELSE get_total_balance(rows)
        /\ day_balance' = calc_day_balance(rs, today)
        /\ month_balance' = calc_month_balance(rs, <<selected_year, selected_month>>)
        /\ boss_balances' = calc_boss_balances(rs)
        /\ boss_list' = IF "bosses" \in fail THEN boss_list ELSE get_all_bosses(rows)
        /\ game_list' = IF fail \cap {"bosses", "games"} # {} THEN game_list
                        ELSE get_all_games(rows)
        /\ panicked' = (fail \cap {"bosses", "games"} # {})

\* db.rs 40-46: the columns CREATE TABLE gives the table.  created_at is
\* written by its DEFAULT and read by no statement: the rows of the model do
\* not carry it.
BaseColumns == <<"id", "date", "boss", "income", "created_at">>

\* db.rs 52, 54, 56: the columns added since, in the order init adds them
AddedColumns == <<"duration", "game", "settled">>

\* what a row that exists already reads in a column ALTER TABLE adds: NULL,
\* and 0 where the column has DEFAULT 0 (db.rs 56)
ColumnDefault(c) == IF c = "settled" THEN FALSE ELSE <<>>

\* a file is [columns, rows, seq]; this one holds no table yet
NewFile == [columns |-> <<>>, rows |-> {}, seq |-> 0]

\* a table that drops what the file held
create_table_anew(file) ==
    [columns |-> BaseColumns, rows |-> {}, seq |-> file.seq, swallowed |-> 0]

\* CREATE TABLE IF NOT EXISTS of db.rs 39-48
create_table(file) ==
    [columns |-> IF file.columns = <<>> THEN BaseColumns ELSE file.columns,
     rows |-> file.rows, seq |-> file.seq, swallowed |-> 0]

\* ALTER TABLE records ADD COLUMN c of db.rs 52-56: the error of a column
\* that exists already is dropped by `let _ =`
add_column(t, c) ==
    IF \E i \in 1..Len(t.columns) : t.columns[i] = c
    THEN [t EXCEPT !.swallowed = @ + 1]
    ELSE [t EXCEPT !.columns = Append(@, c),
                   !.rows = {[f \in DOMAIN r \cup {c} |->
                                IF f = c THEN ColumnDefault(c) ELSE r[f]] : r \in @}]

\* the ALTER TABLE statements for the columns cs, one after the other
RECURSIVE add_columns(_, _)
add_columns(t, cs) ==
    IF cs = <<>> THEN t ELSE add_columns(add_column(t, Head(cs)), Tail(cs))

\* db.rs 38-59
init(file) == add_columns(create_table(file), AddedColumns)

\* an INSERT into a table without AUTOINCREMENT: the id after the largest stored
InsertRowReusing(date, boss, income, duration, game, settled) ==
    LET top == IF db_rows = {} THEN 0
               ELSE CHOOSE i \in {r.id : r \in db_rows} : \A r \in db_rows : r.id <= i
    IN  /\ db_rows' = db_rows \cup
             {[id |-> top + 1, date |-> date, boss |-> boss, income |-> income,
               duration |-> duration, game |-> game, settled |-> settled]}
        /\ db_seq' = db_seq + 1
        /\ UNCHANGED db_columns

\* db.rs 61-75: the INSERT, with the id AUTOINCREMENT assigns
InsertRow(date, boss, income, duration, game, settled) ==
    /\ db_rows' = db_rows \cup
         {[id |-> db_seq + 1, date |-> date, boss |-> boss, income |-> income,
           duration |-> duration, game |-> game, settled |-> settled]}
    /\ db_seq' = db_seq + 1
    /\ UNCHANGED db_columns

\* main.rs 1113-1117: the rows shown, those of the selected month
filtered_records ==
    SelectSeq(records, LAMBDA r : StartsWithMonth(r.date, <<selected_year, selected_month>>))

\* main.rs 606-609: the records the timer bar counts as today's
today_records == SelectSeq(records, LAMBDA r : r.date = today)

\* main.rs 1122-1126: the loop pushes remaining, then takes the row's income
\* off it; what it takes off after the last push is read by nothing
RECURSIVE RunningFrom(_, _)
RunningFrom(rs, remaining) ==
    IF rs = <<>> THEN <<>>
    ELSE <<remaining>> \o
         RunningFrom(Tail(rs),
                     IF Len(rs) = 1 THEN remaining ELSE F64Sub(remaining, Head(rs).income))

\* main.rs 1119-1126
running_balances == RunningFrom(filtered_records, SumIncome(filtered_records))

----------------------------------------------------------------------------
(* The ledger's handlers. *)

\* main.rs 300-306 and 315, 326, 342, 353, 360: the messages, by name
MsgBothMissing == "both-missing"
MsgBossMissing == "counterparty-missing"
MsgAmountInvalid == "amount-invalid"
MsgOverCeiling == "amount-over-ceiling"
MsgDurationInvalid == "duration-invalid"
MsgAdded == "added"
MsgAddFailed == "add-failed"
MsgDeleted == "deleted"

\* main.rs 273-277
show_message(msg, is_error) ==
    /\ message' = msg
    /\ message_is_error' = is_error

\* main.rs 287
boss_empty == Trim(input_boss) = <<>>

\* an amount check that lets zero through
income_invalid_strict ==
    LET v == ParseF64(Trim(input_income))
    IN  IF IsOk(v) THEN (v.k = "num" /\ v.neg /\ v.cents > 0) \/ ~IsFinite(v) ELSE TRUE

\* main.rs 288-290
income_invalid ==
    LET v == ParseF64(Trim(input_income))
    IN  IF IsOk(v) THEN LeZero(v) \/ ~IsFinite(v) ELSE TRUE

\* an add_record with no ceiling check
income_over_never == FALSE

\* main.rs 310-313
income_over == GtMaxIncome(ParseF64(Trim(input_income)))

\* main.rs 320-330: the duration is blank, valid or invalid
duration_blank == Trim(input_duration) = <<>>
\* a duration check that lets every text through
duration_valid_any == TRUE

duration_valid ==
    LET v == ParseF64(Trim(input_duration))
    IN  IsOk(v) /\ GtZero(v) /\ IsFinite(v)

\* an add_record that clears the form whatever the INSERT returns
add_record_clearing(ok, maxIds) ==
    IF boss_empty \/ income_invalid
    THEN /\ input_boss_error' = boss_empty
         /\ input_income_error' = income_invalid
         /\ show_message(CASE boss_empty /\ income_invalid -> MsgBothMissing
                           [] boss_empty /\ ~income_invalid -> MsgBossMissing
                           [] ~boss_empty /\ income_invalid -> MsgAmountInvalid,
                         TRUE)
         /\ UNCHANGED <<storeVars, cacheVars, inputVars>>
    ELSE IF income_over
    THEN /\ input_boss_error' = FALSE
         /\ input_income_error' = TRUE
         /\ show_message(MsgOverCeiling, TRUE)
         /\ UNCHANGED <<storeVars, cacheVars, inputVars>>
    ELSE IF ~duration_blank /\ ~duration_valid
    THEN /\ input_boss_error' = FALSE
         /\ input_income_error' = FALSE
         /\ show_message(MsgDurationInvalid, TRUE)
         /\ UNCHANGED <<storeVars, cacheVars, inputVars>>
    ELSE IF ok
    THEN /\ db_seq < maxIds
         /\ InsertRow(input_date,
                      Trim(input_boss),
                      F64OfCents(ParseF64(Trim(input_income)).cents),
                      IF duration_blank THEN <<>>
                      ELSE <<RoundOneDecimal(ParseF64(Trim(input_duration)))>>,
                      IF Trim(input_game) = <<>> THEN <<>> ELSE <<Trim(input_game)>>,
                      input_settled)
         /\ show_message(MsgAdded, FALSE)
         /\ input_boss' = <<>>
         /\ input_income' = <<>>
         /\ input_duration' = <<>>
         /\ input_game' = <<>>
         /\ input_settled' = FALSE
         /\ input_boss_error' = FALSE
         /\ input_income_error' = FALSE
         /\ refresh_data(db_rows')
    ELSE /\ input_boss_error' = FALSE
         /\ input_income_error' = FALSE
         /\ show_message(MsgAddFailed, TRUE)
         /\ input_boss' = <<>>
         /\ input_income' = <<>>
         /\ input_duration' = <<>>
         /\ input_game' = <<>>
         /\ input_settled' = FALSE
         /\ UNCHANGED <<storeVars, cacheVars>>

\* main.rs 279-356; ok: whether the INSERT succeeds; maxIds bounds the ids of the model
add_record(ok, maxIds) ==
    IF boss_empty \/ income_invalid
    THEN /\ input_boss_error' = boss_empty
         /\ input_income_error' = income_invalid
         /\ show_message(CASE boss_empty /\ income_invalid -> MsgBothMissing
                           [] boss_empty /\ ~income_invalid -> MsgBossMissing
                           [] ~boss_empty /\ income_invalid -> MsgAmountInvalid,
                         TRUE)
         /\ UNCHANGED <<storeVars, cacheVars, inputVars>>
    ELSE IF income_over
    THEN /\ input_boss_error' = FALSE
         /\ input_income_error' = TRUE
         /\ show_message(MsgOverCeiling, TRUE)
         /\ UNCHANGED <<storeVars, cacheVars, inputVars>>
    ELSE IF ~duration_blank /\ ~duration_valid
    THEN /\ input_boss_error' = FALSE
         /\ input_income_error' = FALSE
         /\ show_message(MsgDurationInvalid, TRUE)
         /\ UNCHANGED <<storeVars, cacheVars, inputVars>>
    ELSE IF ok
    THEN /\ db_seq < maxIds
         /\ InsertRow(input_date,
                      Trim(input_boss),
                      F64OfCents(ParseF64(Trim(input_income)).cents),
                      IF duration_blank THEN <<>>
                      ELSE <<RoundOneDecimal(ParseF64(Trim(input_duration)))>>,
                      IF Trim(input_game) = <<>> THEN <<>> ELSE <<Trim(input_game)>>,
                      input_settled)
         /\ show_message(MsgAdded, FALSE)
         /\ input_boss' = <<>>
         /\ input_income' = <<>>
         /\ input_duration' = <<>>
         /\ input_game' = <<>>
         /\ input_settled' = FALSE
         /\ input_boss_error' = FALSE
         /\ input_income_error' = FALSE
         /\ refresh_data(db_rows')
    ELSE /\ input_boss_error' = FALSE
         /\ input_income_error' = FALSE
         /\ show_message(MsgAddFailed, TRUE)
         /\ UNCHANGED <<storeVars, cacheVars, inputVars>>

\* main.rs 1026-1028: the add button
AddClick(maxIds) ==
    /\ \E ok \in BOOLEAN : add_record(ok, maxIds)
    /\ issued' = issued \cup {r.id : r \in db_rows'}
    /\ UNCHANGED <<now, timerVars, histVars, monthVars, input_date, today,
                   store_call, init_log, shown, panicked>>

\* a delete that takes the row off the snapshot whatever the DELETE returns
delete_record_optimistic(id, ok) ==
    IF ok
    THEN /\ db_rows' = {r \in db_rows : r.id # id}
         /\ UNCHANGED <<db_columns, db_seq>>
         /\ show_message(MsgDeleted, FALSE)
         /\ refresh_data(db_rows')
    ELSE /\ records' = SelectSeq(records, LAMBDA r : r.id # id)
         /\ UNCHANGED <<storeVars, total_balance, day_balance, month_balance,
                        boss_balances, boss_list, game_list, msgVars>>

\* a delete that takes a DELETE of no row for a failure
delete_record_strict(id, ok) ==
    IF ok /\ \E r \in db_rows : r.id = id
    THEN /\ db_rows' = {r \in db_rows : r.id # id}
         /\ UNCHANGED <<db_columns, db_seq>>
         /\ show_message(MsgDeleted, FALSE)
         /\ refresh_data(db_rows')
    ELSE UNCHANGED <<storeVars, cacheVars, msgVars>>

\* main.rs 358-363 and db.rs 77-80; ok: whether the DELETE succeeds
delete_record(id, ok) ==
    IF ok
    THEN /\ db_rows' = {r \in db_rows : r.id # id}
         /\ UNCHANGED <<db_columns, db_seq>>
         /\ show_message(MsgDeleted, FALSE)
         /\ refresh_data(db_rows')
    ELSE UNCHANGED <<storeVars, cacheVars, msgVars>>

\* main.rs 1230-1232 and 1244-1246: the delete button of a row shown
DeleteClick ==
    /\ \E i \in 1..Len(filtered_records), ok \in BOOLEAN :
          delete_record(filtered_records[i].id, ok)
    /\ UNCHANGED <<now, timerVars, histVars, ledgerHist, monthVars, input_date, inputVars,
                   flagVars, today>>

\* main.rs 358-363 for a row shown, the DELETE succeeding and any of the reads
\* of the refresh failing
DeleteReading ==
    /\ ~panicked
    /\ \E i \in 1..Len(filtered_records), fail \in SUBSET Reads :
          /\ db_rows' = {r \in db_rows : r.id # filtered_records[i].id}
          /\ UNCHANGED <<db_columns, db_seq>>
          /\ show_message(MsgDeleted, FALSE)
          /\ refresh_data_reading(db_rows', fail)
    /\ UNCHANGED <<now, timerVars, histVars, monthVars, input_date, inputVars, flagVars,
                   today, issued, store_call, init_log, shown>>

\* an UPDATE without its WHERE
update_settled_all(rows, id, settled) ==
    {[r EXCEPT !.settled = settled] : r \in rows}

\* db.rs 149-155
update_settled(rows, id, settled) ==
    {IF r.id = id THEN [r EXCEPT !.settled = settled] ELSE r : r \in rows}

\* main.rs 1213-1217 and 1237-1242: the settled checkbox of a row shown
ToggleSettled ==
    /\ \E i \in 1..Len(filtered_records), ok \in BOOLEAN :
          IF ok
          THEN /\ db_rows' = update_settled(db_rows, filtered_records[i].id,
                                            ~filtered_records[i].settled)
               /\ UNCHANGED <<db_columns, db_seq>>
               /\ refresh_data(db_rows')
          ELSE UNCHANGED <<storeVars, cacheVars>>
    /\ UNCHANGED <<now, timerVars, histVars, ledgerHist, monthVars, input_date, inputVars,
                   flagVars, msgVars, today>>

\* main.rs 358-363: delete_record called with any id
DeleteCall(Ids) ==
    /\ \E id \in Ids, ok \in BOOLEAN :
          /\ delete_record(id, ok)
          /\ store_call' = [op |-> "delete", id |-> id, settled |-> FALSE,
                            found |-> \E r \in db_rows : r.id = id, ok |-> ok]
    /\ UNCHANGED <<now, timerVars, histVars, monthVars, input_date, inputVars,
                   flagVars, today, issued, init_log, shown, panicked>>

\* main.rs 1237-1242: update_settled called with any id and flag; ok: whether
\* the UPDATE succeeds
UpdateSettledCall(Ids) ==
    /\ \E id \in Ids, settled \in BOOLEAN, ok \in BOOLEAN :
          /\ IF ok
             THEN /\ db_rows' = update_settled(db_rows, id, settled)
                  /\ UNCHANGED <<db_columns, db_seq>>
                  /\ refresh_data(db_rows')
             ELSE UNCHANGED <<storeVars, cacheVars>>
          /\ store_call' = [op |-> "update", id |-> id, settled |-> settled,
                            found |-> \E r \in db_rows : r.id = id, ok |-> ok]
    /\ UNCHANGED <<now, timerVars, histVars, monthVars, input_date, inputVars,
                   flagVars, msgVars, today, issued, init_log, shown,
                   panicked>>

\* main.rs 704-744: a year and month picked in the header
SelectMonth(Months) ==
    /\ \E ym \in Months :
          /\ ym # <<selected_year, selected_month>>
          /\ selected_year' = ym[1]
          /\ selected_month' = ym[2]
          /\ month_balance' = calc_month_balance(records, ym)
    /\ UNCHANGED <<now, timerVars, histVars, ledgerHist, storeVars, records, total_balance,
                   day_balance, boss_balances, boss_list, game_list, input_date,
                   inputVars, flagVars, msgVars, today>>

\* main.rs 782-849 and 1032-1041: the date picked in the form
SetDate(Dates) ==
    /\ \E d \in Dates : input_date' = d
    /\ UNCHANGED <<now, timerVars, histVars, ledgerHist, storeVars, cacheVars, monthVars,
                   inputVars, flagVars, msgVars, today>>

\* main.rs 381-395: format_money called on the double of units.cents, with
\* either sign
FormatMoney(Units, Cents) ==
    /\ \E neg \in BOOLEAN, u \in Units, c \in Cents :
          shown' = [neg |-> neg, units |-> u, cents |-> c,
                    text |-> format_money([neg |-> neg, mag |-> F64OfDecimal(u, c)])]
    /\ UNCHANGED <<now, timerVars, histVars, storeVars, cacheVars, monthVars, input_date,
                   inputVars, flagVars, msgVars, today, issued, store_call, init_log,
                   panicked>>

\* Local::now() of main.rs 199, 263 and 606 reads a later calendar day
DayChange(Days) ==
    /\ \E d \in Days : DateLess(today, d) /\ today' = d
    /\ UNCHANGED <<now, timerVars, histVars, ledgerHist, storeVars, cacheVars, monthVars,
                   input_date, inputVars, flagVars, msgVars>>

\* main.rs 866-871: the counterparty field edited
TypeBoss(Texts) ==
    /\ \E t \in Texts : t # input_boss /\ input_boss' = t
    /\ UNCHANGED <<now, timerVars, histVars, ledgerHist, storeVars, cacheVars, monthVars,
                   input_date, input_income, input_duration, input_game,
                   input_settled, flagVars, msgVars, today>>

\* main.rs 996-1002: the amount field edited
TypeIncome(Texts) ==
    /\ \E t \in Texts : t # input_income /\ input_income' = t
    /\ UNCHANGED <<now, timerVars, histVars, ledgerHist, storeVars, cacheVars, monthVars,
                   input_date, input_boss, input_duration, input_game,
                   input_settled, flagVars, msgVars, today>>

\* main.rs 973-978: the duration field edited
TypeDuration(Texts) ==
    /\ \E t \in Texts : t # input_duration /\ input_duration' = t
    /\ UNCHANGED <<now, timerVars, histVars, ledgerHist, storeVars, cacheVars, monthVars,
                   input_date, input_boss, input_income, input_game,
                   input_settled, flagVars, msgVars, today>>

\* main.rs 921-926: the tag field edited
TypeGame(Texts) ==
    /\ \E t \in Texts : t # input_game /\ input_game' = t
    /\ UNCHANGED <<now, timerVars, histVars, ledgerHist, storeVars, cacheVars, monthVars,
                   input_date, input_boss, input_income, input_duration,
                   input_settled, flagVars, msgVars, today>>

\* main.rs 1016: the settled checkbox of the form
CheckSettled ==
    /\ input_settled' = ~input_settled
    /\ UNCHANGED <<now, timerVars, histVars, ledgerHist, storeVars, cacheVars, monthVars,
                   input_date, input_boss, input_income, input_duration,
                   input_game, flagVars, msgVars, today>>

\* main.rs 873-876
FocusBoss ==
    /\ input_boss_error
    /\ input_boss_error' = FALSE
    /\ UNCHANGED <<now, timerVars, histVars, ledgerHist, storeVars, cacheVars, monthVars,
                   input_date, inputVars, input_income_error, msgVars, today>>

\* main.rs 1005-1007
FocusIncome ==
    /\ input_income_error
    /\ input_income_error' = FALSE
    /\ UNCHANGED <<now, timerVars, histVars, ledgerHist, storeVars, cacheVars, monthVars,
                   input_date, inputVars, input_boss_error, msgVars, today>>

\* main.rs 196-237 on an empty table; the calendar day of the model's run
FirstDay == <<2025, 1, 31>>
NextDay == <<2025, 2, 1>>

\* Database::new and App::new (db.rs 20-29, main.rs 196-237) on the file given
Constructed(file) ==
    /\ db_columns = init(file).columns
    /\ db_rows = init(file).rows
    /\ db_seq = file.seq
    /\ today = FirstDay
    /\ records = get_all_records(db_rows)
    /\ total_balance = get_total_balance(db_rows)
    /\ day_balance = calc_day_balance(records, today)
    /\ month_balance = calc_month_balance(records, <<today[1], today[2]>>)
    /\ boss_balances = calc_boss_balances(records)
    /\ boss_list = get_all_bosses(db_rows)
    /\ game_list = get_all_games(db_rows)
    /\ selected_year = FirstDay[1]
    /\ selected_month = FirstDay[2]
    /\ input_date = FirstDay
    /\ input_boss = <<>>
    /\ input_income = <<>>
    /\ input_duration = <<>>
    /\ input_game = <<>>
    /\ input_settled = FALSE
    /\ input_boss_error = FALSE
    /\ input_income_error = FALSE
    /\ message = ""
    /\ message_is_error = FALSE
    /\ issued = 1..file.seq
    /\ store_call = [op |-> "none", id |-> 0, settled |-> FALSE, found |-> FALSE, ok |-> FALSE]
    /\ init_log = [from |-> file, swallowed |-> init(file).swallowed, runs |-> 1]
    /\ shown = [neg |-> FALSE, units |-> 0, cents |-> 0, text |-> <<>>]
    /\ panicked = FALSE

\* the first start, on a file without a table
LedgerInit == Constructed(NewFile)

Init == TimerInit /\ LedgerInit

\* a day of the month before
PrevDay == <<2024, 12, 31>>

AllColumns == BaseColumns \o AddedColumns

\* the row of id i that an earlier session stored: typed into the form and
\* inserted by add_record as any row is
StoredRow(i) ==
    [id |-> i,
     date |-> IF i % 2 = 1 THEN FirstDay ELSE PrevDay,
     boss |-> IF i % 2 = 1 THEN <<"A">> ELSE <<"B">>,
     income |-> F64OfCents(10 * (IF i <= 3 THEN 4 - i ELSE i)),
     duration |-> IF i = 1 THEN <<150>> ELSE <<>>,
     game |-> IF i = 1 THEN <<<<"G">>>> ELSE <<>>,
     settled |-> FALSE]

\* the file an earlier session left: some of the rows 1..n, n the largest id given
StoredFiles(n) ==
    {[columns |-> AllColumns, rows |-> {StoredRow(i) : i \in ids}, seq |-> n] :
        ids \in SUBSET (1..n)}

\* the row of id i as a file with the added columns cs holds it: the second
\* settled, where there is such a column
LegacyRow(i, cs) ==
    [f \in {"id", "date", "boss", "income"} \cup {cs[k] : k \in 1..Len(cs)} |->
        IF f = "settled" THEN i = 2 ELSE StoredRow(i)[f]]

\* the added columns a file of an earlier version may hold, in the order it
\* was given them
LegacyColumns ==
    {cs \in UNION {[1..n -> {AddedColumns[k] : k \in 1..Len(AddedColumns)}] :
                      n \in 0..Len(AddedColumns)} :
        \A i, j \in 1..Len(cs) : cs[i] = cs[j] => i = j}

\* the files of earlier versions: no table yet, or the base columns, some of
\* the added columns and some of the rows 1..n
LegacyFiles(n) ==
    {NewFile} \cup
    {[columns |-> BaseColumns \o cs, rows |-> {LegacyRow(i, cs) : i \in ids}, seq |-> n] :
        cs \in LegacyColumns, ids \in SUBSET (1..n)}

\* the program closed and started again on the file it left: Database::new
\* and App::new (db.rs 20-29, main.rs 196-237)
Restart ==
    LET file == [columns |-> db_columns, rows |-> db_rows, seq |-> db_seq]
    IN  /\ init_log.runs < MaxRuns
        /\ db_columns' = init(file).columns
        /\ db_rows' = init(file).rows
        /\ db_seq' = db_seq
        /\ records' = get_all_records(db_rows')
        /\ total_balance' = get_total_balance(db_rows')
        /\ day_balance' = calc_day_balance(records', today)
        /\ month_balance' = calc_month_balance(records', <<today[1], today[2]>>)
        /\ boss_balances' = calc_boss_balances(records')
        /\ boss_list' = get_all_bosses(db_rows')
        /\ game_list' = get_all_games(db_rows')
        /\ selected_year' = today[1]
        /\ selected_month' = today[2]
        /\ input_date' = today
        /\ input_boss' = <<>>
        /\ input_income' = <<>>
        /\ input_duration' = <<>>
        /\ input_game' = <<>>
        /\ input_settled' = FALSE
        /\ input_boss_error' = FALSE
        /\ input_income_error' = FALSE
        /\ message' = ""
        /\ message_is_error' = FALSE
        /\ timer_running' = FALSE
        /\ timer_start_instant' = <<>>
        /\ timer_accumulated' = 0
        /\ timer_ended' = FALSE
        /\ call' = [op |-> "none", from |-> "Initial", acc |-> 0]
        /\ phase' = "Initial"
        /\ ran' = 0
        /\ store_call' = [op |-> "none", id |-> 0, settled |-> FALSE, found |-> FALSE,
                          ok |-> FALSE]
        /\ init_log' = [from |-> file, swallowed |-> init(file).swallowed,
                        runs |-> init_log.runs + 1]
        /\ panicked' = FALSE
        /\ UNCHANGED <<now, today, issued, shown>>

----------------------------------------------------------------------------
(* The specifications.  TimerSpec: the stopwatch alone.  ValidationSpec:    *)
(* the form and the add button over texts that reach every rule of the      *)
(* validation.  Spec: the stopwatch and the ledger together.                *)

TimerNext ==
    \/ StartBtn
    \/ PauseBtn
    \/ ResumeBtn
    \/ StopBtn
    \/ ResetBtn
    \/ Tick(MaxClock)

TimerSpec == Init /\ [][TimerNext]_vars

FormBosses == {<<>>, <<" ">>, <<" ", "A", " ">>}
FormIncomes ==
    {<<>>, <<"a", "b", "c">>, <<"0">>, <<"-", "5">>, <<" ", "5", "0">>,
     <<"1", "0", "0", "0", "0", "0">>,
     <<"1", "0", "0", "0", "0", "0", ".", "0", "1">>,
     <<"2", "0", "0", "0", "0", "0">>, <<"i", "n", "f">>, <<"N", "a", "N">>}
FormDurations == {<<>>, <<"x">>, <<"1", ".", "5">>}

ValidationNext ==
    \/ TypeBoss(FormBosses)
    \/ TypeIncome(FormIncomes)
    \/ TypeDuration(FormDurations)
    \/ AddClick(MaxFormIds)
    \/ FocusBoss
    \/ FocusIncome

ValidationSpec == Init /\ [][ValidationNext]_vars

\* EntrySpec: the whole form and the add button, on a file that holds one row
EntryBosses == {<<" ", "A", " ">>}
EntryIncomes == {<<"5">>}
EntryDurations == {<<"1", ".", "2", "5">>, <<"x">>}
EntryGames == {<<" ">>, <<" ", "G", " ">>}

EntryInit == TimerInit /\ Constructed([columns |-> AllColumns, rows |-> {StoredRow(1)}, seq |-> 1])

EntryNext ==
    \/ TypeBoss(EntryBosses)
    \/ TypeIncome(EntryIncomes)
    \/ TypeDuration(EntryDurations)
    \/ TypeGame(EntryGames)
    \/ CheckSettled
    \/ AddClick(MaxEntryIds)

EntrySpec == EntryInit /\ [][EntryNext]_vars

\* RecordSpec: the form at the edges of what add_record lets through, on a
\* new file
RecBosses == {<<" ">>, <<" ", "A", " ">>}
RecIncomes ==
    {<<"0">>, <<"0", ".", "0", "1">>, <<"1", "0", "0", "0", "0", "0">>,
     <<"1", "0", "0", "0", "0", "0", ".", "0", "1">>}
RecDurations == {<<" ">>, <<"0">>, <<"0", ".", "0", "4">>, <<"0", ".", "0", "5">>}
RecGames == {<<" ">>, <<" ", "G", " ">>}

RecordNext ==
    \/ TypeBoss(RecBosses)
    \/ TypeIncome(RecIncomes)
    \/ TypeDuration(RecDurations)
    \/ TypeGame(RecGames)
    \/ AddClick(MaxFormIds)

RecordSpec == Init /\ [][RecordNext]_vars

\* StoreSpec: add, delete, toggle and month selection on a file that holds
\* rows of an earlier session.  CallSpec: delete and update_settled called
\* with any id on such a file.
StoreMonths == {<<FirstDay[1], FirstDay[2]>>, <<PrevDay[1], PrevDay[2]>>}
MaxStoreIds == PoolSize + 1

StoreInit == TimerInit /\ \E file \in StoredFiles(PoolSize) : Constructed(file)

StoreNext ==
    \/ TypeBoss({<<"A">>})
    \/ TypeIncome({<<"0", ".", "1">>})
    \/ AddClick(MaxStoreIds)
    \/ DeleteClick
    \/ ToggleSettled
    \/ SelectMonth(StoreMonths)

StoreSpec == StoreInit /\ [][StoreNext]_vars

CallNext ==
    \/ DeleteCall(1..MaxStoreIds)
    \/ UpdateSettledCall(1..MaxStoreIds)
    \/ SelectMonth(StoreMonths)

CallSpec == StoreInit /\ [][CallNext]_vars

\* ReadSpec: deletes whose refresh meets failing reads, on a file of an
\* earlier session.
ReadNext ==
    \/ DeleteReading
    \/ ~panicked /\ SelectMonth(StoreMonths)

ReadSpec == StoreInit /\ [][ReadNext]_vars

\* FormatSpec: format_money on amounts around its thresholds.
MoneyUnits ==
    {0, 1, 500, 1234, 99999, 100000, 100050, 101250, 123456, 150000, 99999999,
     100000000, 123456789, 150000000}
MoneyCents == {0, 1, 50, 99}

FormatSpec == Init /\ [][FormatMoney(MoneyUnits, MoneyCents)]_vars

\* CalendarSpec: records of several days, months and years, and the calendar
\* day changing while the program runs.
CalDates == {<<2025, 1, 30>>, FirstDay, NextDay, <<2024, 1, 31>>}
CalMonths == {<<2025, 1>>, <<2025, 2>>, <<2024, 1>>}

CalendarInit == TimerInit /\ \E file \in StoredFiles(MaxCalIds - 1) : Constructed(file)

CalendarNext ==
    \/ SetDate(CalDates)
    \/ TypeBoss({<<"A">>})
    \/ TypeIncome({<<"0", ".", "1">>})
    \/ AddClick(MaxCalIds)
    \/ DeleteClick
    \/ ToggleSettled
    \/ SelectMonth(CalMonths)
    \/ DayChange({NextDay})

CalendarSpec == CalendarInit /\ [][CalendarNext]_vars

\* WriteSpec: inserts, deletes and updates of the settled flag that the store
\* carries out or fails.
WriteNext ==
    \/ TypeBoss({<<"A">>})
    \/ TypeIncome({<<"0", ".", "1">>})
    \/ AddClick(MaxCalIds)
    \/ DeleteCall(1..MaxCalIds)
    \/ UpdateSettledCall(1..MaxCalIds)

WriteSpec == CalendarInit /\ [][WriteNext]_vars

\* MigrationSpec: the program started on a file of an earlier version, used,
\* and started again.
LegacyPool == PoolSize - 1

MigrationInit == TimerInit /\ \E file \in LegacyFiles(LegacyPool) : Constructed(file)

MigrationNext ==
    \/ Restart
    \/ DeleteClick
    \/ ToggleSettled

MigrationSpec == MigrationInit /\ [][MigrationNext]_vars

Months == {<<FirstDay[1], FirstDay[2]>>, <<NextDay[1], NextDay[2]>>}

Next ==
    \/ StartBtn
    \/ PauseBtn
    \/ ResumeBtn
    \/ StopBtn
    \/ ResetBtn
    \/ Tick(MaxSpecClock)
    \/ TypeBoss({<<"A">>})
    \/ TypeIncome({<<"5">>})
    \/ TypeDuration({<<>>, <<"x">>})
    \/ AddClick(MaxIds)
    \/ DeleteClick
    \/ ToggleSettled
    \/ SelectMonth(Months)

Spec == Init /\ [][Next]_vars

----------------------------------------------------------------------------
(* The stopwatch claims, checked under TimerSpec. *)

\* C1: in Initial only start changes the timer and in Ended only reset does;
\* pause/resume/stop/reset in Initial, start/pause/resume/stop in Ended,
\* start/resume/reset in Running and start/pause/reset in Paused leave the
\* running flag, the start instant, the accumulated time and the ended flag
\* as they were.
C1_TimerLegality ==
    [][ /\ (is_initial /\ (PauseBtn \/ ResumeBtn \/ StopBtn \/ ResetBtn))
             => UNCHANGED timerVars
        /\ (is_ended /\ (StartBtn \/ PauseBtn \/ ResumeBtn \/ StopBtn))
             => UNCHANGED timerVars
        /\ (is_running /\ (StartBtn \/ ResumeBtn \/ ResetBtn))
             => UNCHANGED timerVars
        /\ (is_paused /\ (StartBtn \/ PauseBtn \/ ResetBtn))
             => UNCHANGED timerVars
        /\ (is_initial /\ timerVars' # timerVars) => call'.op = "start"
        /\ (is_ended /\ timerVars' # timerVars) => call'.op = "reset"
      ]_vars

C1_Witness ==
    /\ call.op = "start"
    /\ call.from = "Paused"
    /\ is_paused
    /\ timer_accumulated = call.acc

\* C2: a pause pressed while Running always leaves the timer Paused, with the
\* start instant cleared and the accumulated time grown by the run, also when
\* the run is measured as zero.
C2_PauseYieldsPaused ==
    (call.op = "pause" /\ call.from = "Running")
        => /\ is_paused
           /\ ~is_initial
           /\ timer_start_instant = <<>>

\* C3: after a stop that is legal in the automaton of spec 4.4 the timer is
\* Ended and the elapsed time is the time spent Running.
C3_ElapsedIsRunningTime ==
    (call.op = "stop" /\ phase = "Ended")
        => /\ is_ended
           /\ elapsed = ran

\* C4: a reset pressed in Ended gives Initial: accumulated and elapsed are zero,
\* the ended flag is cleared, no start instant is held, and the next start is
\* accepted.
C4_ResetToInitial ==
    /\ []((call.op = "reset" /\ call.from = "Ended")
            => /\ is_initial
               /\ TimerState = "Initial"
               /\ elapsed = 0
               /\ timer_accumulated = 0
               /\ ~timer_ended
               /\ timer_start_instant = <<>>)
    /\ [][(StartBtn /\ call.op = "reset" /\ call.from = "Ended")
            => (timer_running' /\ timer_start_instant' = <<now>>)]_vars

C4_Witness ==
    /\ call.op = "reset"
    /\ call.from = "Ended"
    /\ call.acc > 0
    /\ is_initial

\* C5: the elapsed time is accumulated + (now - start instant) while Running
\* and accumulated otherwise; it grows with the clock only while Running, and
\* resume and stop-from-Paused leave the accumulated time unchanged.
C5_ElapsedDerived ==
    /\ [](/\ is_running => /\ timer_start_instant # <<>>
                           /\ elapsed = timer_accumulated + (now - timer_start_instant[1])
          /\ ~is_running => elapsed = timer_accumulated)
    /\ [][ /\ (now' # now /\ ~is_running) => elapsed' = elapsed
           /\ (now' # now /\ is_running) => elapsed' = elapsed + (now' - now)
           /\ (ResumeBtn \/ (StopBtn /\ is_paused))
                => timer_accumulated' = timer_accumulated
           /\ (ResumeBtn /\ is_paused) => elapsed' = elapsed
         ]_vars

C5_Witness ==
    /\ call.op = "resume"
    /\ call.from = "Paused"
    /\ is_running
    /\ timer_accumulated > 0
    /\ now > timer_start_instant[1]
    /\ elapsed = timer_accumulated + 1

----------------------------------------------------------------------------
(* The stopwatch and the ledger together, checked under Spec. *)

\* C6: no stopwatch button changes the store, the snapshot or the form's
\* duration field, and add, delete, toggle-settled and month selection leave
\* the running flag, the start instant, the accumulated time and the ended
\* flag unchanged.
C6_TimerLedgerIndependent ==
    [][ /\ ~(/\ <<db_rows, db_seq, records, input_duration>>'
                   # <<db_rows, db_seq, records, input_duration>>
              /\ (StartBtn \/ PauseBtn \/ ResumeBtn \/ StopBtn \/ ResetBtn))
        /\ ~(/\ timerVars' # timerVars
              /\ (\/ AddClick(MaxIds)
                  \/ DeleteClick
                  \/ ToggleSettled
                  \/ SelectMonth(Months)))
        /\ ~(/\ timerVars' # timerVars
              /\ <<storeVars, cacheVars, monthVars, inputVars>>'
                   # <<storeVars, cacheVars, monthVars, inputVars>>)
      ]_vars

C6_Witness ==
    /\ call.op = "stop"
    /\ call.from = "Running"
    /\ is_ended
    /\ timer_accumulated > 0
    /\ Len(records) = 1
    /\ input_duration = <<"x">>

----------------------------------------------------------------------------
(* The validation of add_record, checked under ValidationSpec.  The rules   *)
(* are stated here on the texts of the form, apart from the code's flags.   *)

CounterpartyBlank == \A i \in 1..Len(input_boss) : input_boss[i] = " "
AmountValue == ParseF64(Trim(input_income))
AmountUnusable ==
    \/ AmountValue.k \in {"err", "inf", "nan"}
    \/ AmountValue.k = "num"
         /\ (AmountValue.neg \/ (AmountValue.cents = 0 /\ ~AmountValue.tiny))
AmountOverCeiling ==
    /\ AmountValue.k = "num"
    /\ ~AmountValue.neg
    /\ \/ AmountValue.cents > 100 * MAX_INCOME
       \/ AmountValue.cents = 100 * MAX_INCOME /\ AmountValue.tiny
AmountInRange ==
    /\ AmountValue.k = "num"
    /\ ~AmountUnusable
    /\ ~AmountOverCeiling
DurationValue == ParseF64(Trim(input_duration))
DurationUnusable ==
    /\ \E i \in 1..Len(input_duration) : input_duration[i] # " "
    /\ ~(/\ DurationValue.k = "num"
          /\ ~DurationValue.neg
          /\ (DurationValue.cents > 0 \/ DurationValue.tiny))

\* C7: when add is rejected by validation (empty counterparty, invalid amount,
\* amount over the ceiling, invalid duration) the table, its id counter, the
\* snapshot, every balance and the texts of the form are unchanged.
C7_RejectionWritesNothing ==
    [][ (AddClick(MaxFormIds)
           /\ (CounterpartyBlank \/ AmountUnusable \/ AmountOverCeiling \/ DurationUnusable))
          => UNCHANGED <<storeVars, cacheVars, inputVars>>
      ]_vars

C7_Witness ==
    /\ message = MsgDurationInvalid
    /\ message_is_error
    /\ db_rows # {}
    /\ input_duration = <<"x">>
    /\ input_income = <<"1", "0", "0", "0", "0", "0">>

\* C8: after every add the counterparty flag is set iff the trimmed counterparty
\* is empty and the amount flag is set iff the amount is unparsable, non-finite,
\* <= 0 or above the ceiling, each whatever the other field holds.
C8_FlagsPerField ==
    [][ AddClick(MaxFormIds)
          => /\ input_boss_error' = CounterpartyBlank
             /\ input_income_error' = (AmountUnusable \/ AmountOverCeiling)
      ]_vars

\* C9: empty counterparty with an unusable amount gives the both-missing message
\* with both flags; empty counterparty with an amount in (0, ceiling] gives the
\* counterparty-missing message; a counterparty with an unparsable, non-finite
\* or <= 0 amount gives the amount-invalid message.
C9_RequiredFieldMessages ==
    [][ AddClick(MaxFormIds)
          => /\ (CounterpartyBlank /\ AmountUnusable)
                  => /\ message' = MsgBothMissing
                     /\ message_is_error'
                     /\ input_boss_error'
                     /\ input_income_error'
             /\ (CounterpartyBlank /\ AmountInRange)
                  => /\ message' = MsgBossMissing
                     /\ message_is_error'
             /\ (~CounterpartyBlank /\ AmountUnusable)
                  => /\ message' = MsgAmountInvalid
                     /\ message_is_error'
      ]_vars

C9_Witness ==
    /\ message = MsgAmountInvalid
    /\ message_is_error
    /\ input_boss = <<" ", "A", " ">>
    /\ input_income = <<"N", "a", "N">>
    /\ input_income_error
    /\ ~input_boss_error

\* C10: with a counterparty, an amount above 100,000 is rejected with the
\* over-ceiling message and the amount flag, and an amount in (0, 100,000],
\* 100,000 itself included, passes the amount rule.
C10_Ceiling ==
    [][ (AddClick(MaxFormIds) /\ ~CounterpartyBlank)
          => /\ AmountOverCeiling
                  => /\ message' = MsgOverCeiling
                     /\ message_is_error'
                     /\ input_income_error'
                     /\ UNCHANGED storeVars
             /\ AmountInRange
                  => /\ message' \notin {MsgOverCeiling, MsgAmountInvalid, MsgBothMissing}
                     /\ ~input_income_error'
      ]_vars

C10_Witness ==
    /\ message = MsgOverCeiling
    /\ input_income_error
    /\ input_income = <<"1", "0", "0", "0", "0", "0", ".", "0", "1">>
    /\ \E r \in db_rows : r.income = F64OfCents(100 * MAX_INCOME)

\* C11 as claimed: every rejection of add by the validation shows one of the four
\* messages both-missing, counterparty-missing, amount-invalid, over-ceiling.
C11_FourMessages ==
    [][ ((CounterpartyBlank \/ AmountUnusable \/ AmountOverCeiling \/ DurationUnusable)
           /\ AddClick(MaxFormIds))
          => message' \in {MsgBothMissing, MsgBossMissing, MsgAmountInvalid, MsgOverCeiling}
      ]_vars

\* C11 as amended: every rejection of add by the validation shows exactly one of
\* five messages as an error: the four of the counterparty and the amount, or,
\* when those two pass and the duration is neither blank nor a finite number
\* above zero, the duration-invalid message; an add the validation lets through
\* shows none of the five.
C11_FiveMessages ==
    [][ /\ ((CounterpartyBlank \/ AmountUnusable \/ AmountOverCeiling \/ DurationUnusable)
             /\ AddClick(MaxFormIds))
            => /\ message' \in {MsgBothMissing, MsgBossMissing, MsgAmountInvalid,
                                MsgOverCeiling, MsgDurationInvalid}
               /\ message_is_error'
               /\ (message' = MsgDurationInvalid)
                    <=> (~CounterpartyBlank /\ AmountInRange /\ DurationUnusable)
        /\ (~(CounterpartyBlank \/ AmountUnusable \/ AmountOverCeiling \/ DurationUnusable)
             /\ AddClick(MaxFormIds))
            => message' \in {MsgAdded, MsgAddFailed}
      ]_vars

C11_Witness ==
    /\ message = MsgDurationInvalid
    /\ message_is_error
    /\ input_boss = <<" ", "A", " ">>
    /\ input_income = <<" ", "5", "0">>
    /\ input_duration = <<"x">>
    /\ ~input_boss_error
    /\ ~input_income_error

----------------------------------------------------------------------------
(* The form and the store, checked under EntrySpec. *)

TagValue == LET kept == {i \in 1..Len(input_game) : input_game[i] # " "}
            IN  IF kept = {} THEN <<>>
                ELSE <<SubSeq(input_game,
                              CHOOSE i \in kept : \A j \in kept : i <= j,
                              CHOOSE i \in kept : \A j \in kept : j <= i)>>
CounterpartyValue ==
    LET kept == {i \in 1..Len(input_boss) : input_boss[i] # " "}
    IN  SubSeq(input_boss,
               CHOOSE i \in kept : \A j \in kept : i <= j,
               CHOOSE i \in kept : \A j \in kept : j <= i)
\* the tenth nearest to the duration typed, in hundredths, a tie going up
DurationTenth ==
    IF \A i \in 1..Len(input_duration) : input_duration[i] = " " THEN <<>>
    ELSE <<CHOOSE d \in 0..(DurationValue.cents + 10) :
             /\ d % 10 = 0
             /\ d - DurationValue.cents <= 5
             /\ DurationValue.cents - d < 5>>

\* C12: the five inputs of the form are cleared by an add exactly when its
\* insert succeeded: after a rejection by the validation or a failed insert
\* counterparty, amount, duration, tag and settled hold what they held, and
\* after a successful insert they are empty and unchecked.
C12_InputsClearedOnSuccess ==
    [][ AddClick(MaxEntryIds)
          => /\ (CounterpartyBlank \/ AmountUnusable \/ AmountOverCeiling \/ DurationUnusable)
                  => UNCHANGED <<inputVars, db_rows>>
             /\ message' = MsgAddFailed => UNCHANGED <<inputVars, db_rows>>
             /\ db_rows' = db_rows => UNCHANGED inputVars
             /\ db_rows' # db_rows
                  => /\ message' = MsgAdded
                     /\ input_boss' = <<>>
                     /\ input_income' = <<>>
                     /\ input_duration' = <<>>
                     /\ input_game' = <<>>
                     /\ input_settled' = FALSE
      ]_vars

C12_Witness ==
    /\ message = MsgAddFailed
    /\ Cardinality(db_rows) = 2
    /\ input_boss = <<" ", "A", " ">>
    /\ input_income = <<"5">>
    /\ input_duration = <<"1", ".", "2", "5">>
    /\ input_game = <<" ", "G", " ">>
    /\ input_settled

\* C13: after a successful add the refreshed snapshot holds exactly one record
\* that was not there, with the date of the form, the counterparty and the tag
\* trimmed, the amount, the duration rounded to one decimal and the settled
\* flag as typed, a blank duration or tag stored as absent; every record that
\* was there is still there, unchanged.
C13_RoundTrip ==
    [][ (db_rows' # db_rows /\ AddClick(MaxEntryIds))
          => LET fresh == {j \in 1..Len(records') :
                             \A i \in 1..Len(records) : records[i].id # records'[j].id}
             IN  /\ Cardinality(fresh) = 1
                 /\ Len(records') = Len(records) + 1
                 /\ \A i \in 1..Len(records) : \E j \in 1..Len(records') : records'[j] = records[i]
                 /\ \A j \in fresh :
                       /\ records'[j].date = input_date
                       /\ records'[j].boss = CounterpartyValue
                       /\ records'[j].income = F64OfCents(AmountValue.cents)
                       /\ records'[j].duration = DurationTenth
                       /\ records'[j].game = TagValue
                       /\ records'[j].settled = input_settled
      ]_vars

C13_Witness ==
    /\ message = MsgAdded
    /\ Len(records) = 2
    /\ \E i \in 1..2 : records[i] = StoredRow(1)
    /\ \E i \in 1..2 :
          /\ records[i].id = 2
          /\ records[i].boss = <<"A">>
          /\ records[i].duration = <<130>>
          /\ records[i].game = <<<<"G">>>>
          /\ records[i].settled

-----------------------------------------------------------------------------
\* The store called by id, checked under CallSpec

\* C14: a delete the store carries out shows the deleted message and leaves
\* the snapshot and the table as they were without the record of the id given,
\* in the order they had; for an id that is not stored, whether it never was
\* or was deleted before, that is the snapshot and the table unchanged.
C14_DeleteIdempotent ==
    [][ (store_call'.op = "delete" /\ store_call'.ok /\ DeleteCall(1..MaxStoreIds))
          => /\ message' = MsgDeleted
             /\ ~message_is_error'
             /\ records' = SelectSeq(records, LAMBDA r : r.id # store_call'.id)
             /\ db_rows' = {r \in db_rows : r.id # store_call'.id}
             /\ Len(records') >= Len(records) - 1
             /\ ~store_call'.found => UNCHANGED <<records, db_rows>>
      ]_vars

\* the second delete of an id the file held
C14_Witness ==
    /\ store_call.op = "delete"
    /\ store_call.ok
    /\ ~store_call.found
    /\ \E r \in init_log.from.rows : r.id = store_call.id
    /\ message = MsgDeleted
    /\ Len(records) = PoolSize - 1

\* C17: an update_settled the store carries out changes the settled flag of
\* the record with the id given to the flag given and nothing else: every
\* other record, the order of the list and every balance are as before, and
\* for an id that is not stored nothing changes.
C17_UpdateSettledSingleField ==
    [][ (store_call'.op = "update" /\ store_call'.ok /\ UpdateSettledCall(1..MaxStoreIds))
          => /\ Len(records') = Len(records)
             /\ \A i \in 1..Len(records) :
                   records'[i] = IF records[i].id = store_call'.id
                                 THEN [records[i] EXCEPT !.settled = store_call'.settled]
                                 ELSE records[i]
             /\ UNCHANGED <<total_balance, day_balance, month_balance, boss_balances>>
             /\ UNCHANGED <<message, message_is_error>>
             /\ ~store_call'.found => UNCHANGED <<records, db_rows>>
      ]_vars

\* one record settled among others, after an update of an id not stored
C17_Witness ==
    /\ store_call.op = "update"
    /\ store_call.ok
    /\ ~store_call.found
    /\ Len(records) = PoolSize
    /\ Cardinality({i \in 1..Len(records) : records[i].settled}) = 1

-----------------------------------------------------------------------------
\* Ids and order, checked under StoreSpec

\* C15: no two rows of the table share an id, every id stored is one that was
\* issued, and a row an insert adds has an id above every id issued before,
\* those of deleted rows included.
C15_IdsNeverReused ==
    [][ /\ \A r, q \in db_rows' : r.id = q.id => r = q
        /\ {r.id : r \in db_rows'} \subseteq issued'
        /\ \A r \in db_rows' :
              r.id \notin {q.id : q \in db_rows}
                 => \A i \in issued \cup {q.id : q \in db_rows} : r.id > i
      ]_vars

\* a row added after the row with the largest id of the file was deleted
C15_Witness ==
    /\ message = MsgAdded
    /\ \E r \in db_rows : r.id = PoolSize + 1
    /\ \A r \in db_rows : r.id # PoolSize
    /\ \E r \in init_log.from.rows : r.id = PoolSize
    /\ PoolSize \in issued

\* the order of two ISO dates, which is the order of their texts
DateAfter(a, b) ==
    \/ a[1] > b[1]
    \/ a[1] = b[1] /\ a[2] > b[2]
    \/ a[1] = b[1] /\ a[2] = b[2] /\ a[3] > b[3]

\* C16: the snapshot holds the rows of the table, each once, and of two
\* neighbours the upper has the later date, or the same date and the larger id.
C16_CanonicalOrder ==
    /\ Len(records) = Cardinality(db_rows)
    /\ {records[i] : i \in 1..Len(records)} = db_rows
    /\ \A i \in 1..(Len(records) - 1) :
          \/ DateAfter(records[i].date, records[i + 1].date)
          \/ /\ records[i].date = records[i + 1].date
             /\ records[i].id > records[i + 1].id

\* after an add and a toggle: a later date above a larger id, and a tie on
\* the date
C16_Witness ==
    /\ Len(records) = PoolSize + 1
    /\ \E i \in 1..PoolSize : records[i].id < records[i + 1].id
    /\ \E i \in 1..PoolSize : records[i].date = records[i + 1].date
    /\ \E i \in 1..(PoolSize + 1) : records[i].settled

-----------------------------------------------------------------------------
\* Initialization, checked under MigrationSpec

\* the orders the three ALTER TABLE statements can be attempted in
AttemptOrders ==
    {p \in [1..Len(AddedColumns) -> {AddedColumns[k] : k \in 1..Len(AddedColumns)}] :
        \A i, j \in 1..Len(AddedColumns) : p[i] = p[j] => i = j}

ColumnSet(cs) == {cs[k] : k \in 1..Len(cs)}

\* the table given is what an initialization of the file given has to leave:
\* every base and added column once, and the rows of the file, each with what
\* it held and the default in the columns it lacked
Initialized(file, columns, rows) ==
    /\ ColumnSet(columns) = ColumnSet(BaseColumns) \cup ColumnSet(AddedColumns)
    /\ Len(columns) = Len(BaseColumns) + Len(AddedColumns)
    /\ Cardinality(rows) = Cardinality(file.rows)
    /\ \A r \in file.rows :
          \E q \in rows :
             /\ \A f \in DOMAIN r : q[f] = r[f]
             /\ "duration" \notin DOMAIN r => q.duration = <<>>
             /\ "game" \notin DOMAIN r => q.game = <<>>
             /\ "settled" \notin DOMAIN r => q.settled = FALSE

\* C18: the first initialization of a file with the base columns and any of
\* the added ones, or with no table, leaves all columns and the rows of the
\* file, the only errors it drops being those of the columns the file had;
\* an initialization after it drops three errors and changes neither the
\* columns nor the rows; and the three additions attempted in any other order
\* leave the same columns and the same rows.
C18_MigrationIdempotent ==
    /\ Initialized(init_log.from, db_columns, db_rows)
    /\ init_log.swallowed = Cardinality(ColumnSet(init_log.from.columns)
                                          \cap ColumnSet(AddedColumns))
    /\ [][ init_log'.runs > init_log.runs
             => /\ UNCHANGED <<db_columns, db_rows, db_seq>>
                /\ init_log'.swallowed = Len(AddedColumns)
                /\ Initialized(init_log'.from, db_columns', db_rows')
                /\ records' = records
                /\ \A p \in AttemptOrders :
                      LET t == add_columns(create_table(init_log'.from), p)
                      IN  /\ ColumnSet(t.columns) = ColumnSet(db_columns')
                          /\ t.rows = db_rows'
         ]_vars
    /\ [](\A p \in AttemptOrders :
             LET t == add_columns(create_table(init_log.from), p)
             IN  init_log.runs = 1 => ColumnSet(t.columns) = ColumnSet(db_columns))

\* started again on a file that came with the settled column alone and has
\* rows, one of them settled
C18_Witness ==
    /\ init_log.runs = 2
    /\ init_log.swallowed = 3
    /\ db_columns = BaseColumns \o <<"settled", "duration", "game">>
    /\ Cardinality(db_rows) = LegacyPool
    /\ \E r \in db_rows : r.settled

-----------------------------------------------------------------------------
\* Sums, checked under StoreSpec

\* the entries of a per-counterparty map added up, the keys taken in the
\* order of get_all_bosses
RECURSIVE KeySum(_, _)
KeySum(balances, keys) ==
    IF keys = <<>> THEN Zero64
    ELSE F64Add(KeySum(balances, SubSeq(keys, 1, Len(keys) - 1)), balances[keys[Len(keys)]])

\* C19: the grand total of the store is the sum of the amounts of the
\* snapshot and the sum of the entries of the per-counterparty map, and the
\* store's sum for a counterparty is its entry in the map, zero for a
\* counterparty without records.
C19_SumInvariant ==
    /\ total_balance = SumIncome(records)
    /\ total_balance = KeySum(boss_balances, SortTexts(DOMAIN boss_balances))
    /\ \A b \in {<<"A">>, <<"B">>, <<"C">>} :
          get_boss_balance(db_rows, b) =
             IF b \in DOMAIN boss_balances THEN boss_balances[b] ELSE Zero64

\* C20: the running balances are as many as the records shown, and the one at
\* index i is the sum of the amounts from index i to the last.
C20_RunningBalanceSuffixSum ==
    /\ Len(running_balances) = Len(filtered_records)
    /\ \A i \in 1..Len(filtered_records) :
          running_balances[i] =
             SumIncome(SubSeq(filtered_records, i, Len(filtered_records)))

-----------------------------------------------------------------------------
\* Days and months, checked under CalendarSpec

\* the text p is the beginning of the text t, character by character
HasPrefix(t, p) == Len(p) <= Len(t) /\ \A i \in 1..Len(p) : t[i] = p[i]

\* the amounts of the records of rs that P holds of, added in the order of rs
AmountsWhere(rs, P(_)) == SumIncome(SelectSeq(rs, P))

\* C21: for every day and month of the calendar, the day balance of the
\* snapshot is the sum of the amounts of the records whose date text is that
\* day's, the month balance the sum of those whose date text begins with the
\* year-month text, and either is 0 when no record matches.
C21_DayAndMonthBalance ==
    /\ \A d \in CalDates :
          /\ calc_day_balance(records, d) =
                AmountsWhere(records, LAMBDA r : FormatDate(r.date) = FormatDate(d))
          /\ (\A i \in 1..Len(records) : records[i].date # d)
                => calc_day_balance(records, d) = Zero64
    /\ \A ym \in CalMonths :
          /\ calc_month_balance(records, ym) =
                AmountsWhere(records,
                             LAMBDA r : HasPrefix(FormatDate(r.date), FormatYearMonth(ym)))
          /\ (\A i \in 1..Len(records) :
                 <<records[i].date[1], records[i].date[2]>> # ym)
                => calc_month_balance(records, ym) = Zero64

\* a record of today and one of the next month of the same year: the balance
\* of the day and of the month are that of the first alone
C21_Witness ==
    /\ Len(records) = 2
    /\ records[1].date = NextDay
    /\ records[2].date = FirstDay
    /\ today = FirstDay
    /\ <<selected_year, selected_month>> = <<FirstDay[1], FirstDay[2]>>
    /\ day_balance = records[2].income
    /\ month_balance = records[2].income

-----------------------------------------------------------------------------
\* Amounts as text, checked under FormatSpec

\* the numeral of q hundredths with two decimals
Numeral(q) == Decimal(q \div 100) \o <<".">> \o ZeroPad(Decimal(q % 100), 2)

\* C22: for the amount units.cents with either sign, format_money writes "-"
\* if the amount is below zero, the currency marker, and then: below 100,000
\* the amount with its two decimals; from 100,000 on and below 100,000,000 a
\* two-decimal numeral within half a hundredth of the amount over 10,000 and
\* the ten-thousand unit; from 100,000,000 on a two-decimal numeral within
\* half a hundredth of the amount over 100,000,000 and the hundred-million
\* unit.  1234.5, 150000, 150000000 and -500 are written as the claim says.
C22_FormatMoney ==
    shown.text # <<>> =>
       LET u == shown.units
           c == shown.cents
           sign == IF shown.neg /\ (u > 0 \/ c > 0) THEN <<"-">> ELSE <<>>
       IN  /\ u < 100000 => shown.text = sign \o <<Yuan>> \o Numeral(u * 100 + c)
           /\ (100000 <= u /\ u < 100000000)
                 => \E q \in {u \div 100, u \div 100 + 1} :
                       /\ shown.text = sign \o <<Yuan>> \o Numeral(q) \o <<Wan>>
                       /\ (q * 100 - u) * 100 - c \in -5000..5000
           /\ 100000000 <= u
                 => \E q \in {u \div 1000000, u \div 1000000 + 1} :
                       /\ shown.text = sign \o <<Yuan>> \o Numeral(q) \o <<Yi>>
                       /\ LET e == ((q * 100 - (u \div 10000)) * 10000 - (u % 10000)) * 100 - c
                          IN  -50000000 <= e /\ e <= 50000000
           /\ (~shown.neg /\ u = 1234 /\ c = 50)
                 => shown.text = <<Yuan, "1", "2", "3", "4", ".", "5", "0">>
           /\ (~shown.neg /\ u = 150000 /\ c = 0)
                 => shown.text = <<Yuan, "1", "5", ".", "0", "0", Wan>>
           /\ (~shown.neg /\ u = 150000000 /\ c = 0)
                 => shown.text = <<Yuan, "1", ".", "5", "0", Yi>>
           /\ (shown.neg /\ u = 500 /\ c = 0)
                 => shown.text = <<"-", Yuan, "5", "0", "0", ".", "0", "0">>

\* the lower threshold itself, below zero
C22_Witness ==
    /\ shown.neg
    /\ shown.units = 100000
    /\ shown.cents = 0
    /\ shown.text = <<"-", Yuan, "1", "0", ".", "0", "0", Wan>>

-----------------------------------------------------------------------------
\* Failing reads, checked under ReadSpec

\* C23: a delete whose refresh meets failing reads does not end the program,
\* and leaves in the list of records, the total and the two suggestion lists
\* either what the store holds or the empty list and zero.
C23_ReadFailuresDegrade ==
    [][ DeleteReading
          => /\ ~panicked'
             /\ records' \in {<<>>, get_all_records(db_rows')}
             /\ total_balance' \in {Zero64, get_total_balance(db_rows')}
             /\ boss_list' \in {<<>>, get_all_bosses(db_rows')}
             /\ game_list' \in {<<>>, get_all_games(db_rows')}
      ]_vars

-----------------------------------------------------------------------------
\* Failing writes, checked under WriteSpec

-----------------------------------------------------------------------------
\* The caches, checked under StoreSpec and CalendarSpec

\* C25: the snapshot holds the rows of the store in canonical order, the
\* total is the sum of their amounts, the month balance the sum of those of
\* the selected year-month and the per-counterparty map the sums by
\* counterparty.
C25_CacheCoherence ==
    /\ Len(records) = Cardinality(db_rows)
    /\ {records[i] : i \in 1..Len(records)} = db_rows
    /\ \A i \in 1..(Len(records) - 1) :
          \/ DateAfter(records[i].date, records[i + 1].date)
          \/ /\ records[i].date = records[i + 1].date
             /\ records[i].id > records[i + 1].id
    /\ total_balance = SumIncome(records)
    /\ month_balance =
          AmountsWhere(records,
                       LAMBDA r : HasPrefix(FormatDate(r.date),
                                            FormatYearMonth(<<selected_year, selected_month>>)))
    /\ DOMAIN boss_balances = {records[i].boss : i \in 1..Len(records)}
    /\ \A b \in DOMAIN boss_balances :
          boss_balances[b] = AmountsWhere(records, LAMBDA r : r.boss = b)

\* C26: the day balance shown in the timer bar is the sum of the amounts of
\* the records the bar counts as today's.
C26_TodayIncomeIsTodays ==
    day_balance = SumIncome(today_records)

\* C30: the running balances of the month shown fall strictly from top to
\* bottom, each is above zero, the first is the month balance of the header
\* and the last is the amount of the last record shown.
C30_RunningColumn ==
    LET n == Len(filtered_records) IN
    /\ Len(running_balances) = n
    /\ \A i \in 1..(n - 1) :
          /\ running_balances[i] # running_balances[i + 1]
          /\ F64Ge(running_balances[i], running_balances[i + 1])
    /\ \A i \in 1..n : running_balances[i] # Zero64
    /\ n > 0 => running_balances[1] = month_balance
    /\ n > 0 => running_balances[n] = filtered_records[n].income

-----------------------------------------------------------------------------
\* The timer's fields, checked under TimerSpec

\* C29: the timer runs exactly when it holds a start instant, an ended timer
\* does not run, exactly one of the four derived states holds, and a button
\* that changes the timer is one of that state: start in Initial, pause or
\* stop in Running, resume or stop in Paused, reset in Ended.
C29_TimerRepresentation ==
    /\ [](/\ timer_running <=> timer_start_instant # <<>>
          /\ timer_ended => ~timer_running
          /\ Cardinality({k \in 1..4 : <<is_initial, is_running, is_paused, is_ended>>[k]}) = 1)
    /\ [][ timerVars' # timerVars
             => \/ is_initial /\ call'.op = "start"
                \/ is_running /\ call'.op \in {"pause", "stop"}
                \/ is_paused /\ call'.op \in {"resume", "stop"}
                \/ is_ended /\ call'.op = "reset"
         ]_vars

\* ended by a stop from Paused
C29_Witness ==
    /\ call.op = "stop"
    /\ call.from = "Paused"
    /\ is_ended
    /\ ~is_initial /\ ~is_running /\ ~is_paused
    /\ timer_start_instant = <<>>
    /\ timer_accumulated > 0

-----------------------------------------------------------------------------
\* The rows add_record writes, checked under RecordSpec

\* a text that is not empty and has no space at either end
Trimmed(t) == t # <<>> /\ Head(t) # " " /\ t[Len(t)] # " "

\* the rows of the table that this run of the program inserted
AddedRows == {r \in db_rows : r.id > init_log.from.seq}

\* C27: every row created through add has a counterparty that is not empty
\* and is trimmed, an amount above zero and at most 100,000, and a tag that is
\* absent or not empty and trimmed.
C27_AddedRecordsWellFormed ==
    \A r \in AddedRows :
        /\ Trimmed(r.boss)
        /\ r.income # Zero64
        /\ F64Ge(F64OfInt(MAX_INCOME), r.income)
        /\ r.game = <<>> \/ (Len(r.game) = 1 /\ Trimmed(r.game[1]))

\* a row at the ceiling, with a tag, was added from texts with spaces
C27_Witness ==
    \E r \in AddedRows :
        /\ r.boss = <<"A">>
        /\ r.income = F64OfInt(MAX_INCOME)
        /\ r.game = <<<<"G">>>>
        /\ message = MsgAdded

\* C28: the stored duration is absent or above zero after the rounding to one
\* decimal.
C28_StoredDurationPositive ==
    \A r \in AddedRows : r.duration = <<>> \/ r.duration[1] > 0

=============================================================================
